---- MODULE Spec2Model ----
(***************************************************************************)
(* Model of the Editor.js code block tool (src/index.js, class CodeTool):  *)
(* the constructor's mode resolution, the selector and textarea it draws,  *)
(* the selector's change listener, the Tab / Shift+Tab key handler, the    *)
(* paste callback and save.                                                *)
(*                                                                         *)
(* A text is a sequence of one-character strings.  A JavaScript value that *)
(* may be undefined is a sequence of length 0 (undefined) or 1 (the value).*)
(***************************************************************************)
EXTENDS Integers, Sequences, FiniteSets, TLC

VARIABLES
    options,    \* the constructor's argument: [data, config, readOnly]
    modes,      \* this.modes, own entries in the order the host wrote them
    data,       \* this._data: [code, mode]
    selector,   \* this.nodes.selector: [options, value, disabled]
    textarea,   \* this.nodes.textarea: [textContent, value, dirty, selectionStart, disabled]
    warnings,   \* number of console.warn calls so far
    lastOp,     \* the operation that produced this state
    saved,      \* what save returned, while lastOp = "save"
    picked,     \* the key the user chose last in the selector, if any
    history     \* the latest consecutive Tab key events, newest last (at most two)

vars == <<options, modes, data, selector, textarea, warnings, lastOp, saved, picked, history>>

(***************************************************************************)
(* Bounds of the model.                                                    *)
(***************************************************************************)
MaxModes == 2   \* entries in a host-supplied config.modes
MaxInit == 4    \* length of the prior code of the key-handler specification
MaxText == 5    \* length a text may grow to

(***************************************************************************)
(* JavaScript values.                                                      *)
(***************************************************************************)
None == <<>>
Some(x) == <<x>>

Min(a, b) == IF a < b THEN a ELSE b
Max(a, b) == IF a > b THEN a ELSE b

\* x is neither undefined nor the empty string (the left operand of ||, the operand of !)
Truthy(x) == x # None /\ x[1] # ""

\* x is neither undefined nor the empty text
TruthyText(x) == x # None /\ x[1] # <<>>

\* String.prototype.substring(from, to): both ends clamped to the string, swapped if reversed
Substring(s, from, to) ==
    LET a == Max(0, Min(from, Len(s)))
        b == Max(0, Min(to, Len(s)))
    IN SubSeq(s, Min(a, b) + 1, Max(a, b))

\* String.prototype.substring(from)
SubstringFrom(s, from) == Substring(s, from, Len(s))

\* String.prototype.substr(start, length), start >= 0
Substr(s, start, length) == SubSeq(s, start + 1, Min(start + length, Len(s)))

(***************************************************************************)
(* Static getters of CodeTool.                                             *)
(***************************************************************************)
DEFAULT_MODE_KEY == "text"
DEFAULT_MODE_LABEL == "Plain Text"

\* config.modes || { text: CodeTool.DEFAULT_MODE_LABEL }: the literal of the right operand
DefaultModes == <<[key |-> DEFAULT_MODE_KEY, label |-> DEFAULT_MODE_LABEL]>>

(***************************************************************************)
(* Inputs.                                                                 *)
(***************************************************************************)
ModeKeys == {"text", "go", "7"}

\* keys that are canonical array indices: a JavaScript object lists them first
IntegerKeys == {"7"}

\* properties every object literal inherits from Object.prototype
ObjectPrototypeKeys == {"constructor", "toString"}

LabelOf(k) == CASE k = "text" -> "Plain Text" [] k = "go" -> "Go" [] OTHER -> "Seven"

Entries == UNION {{[key |-> k, label |-> l] : l \in {LabelOf(k), ""}} : k \in ModeKeys}

\* the object literals a host may pass as config.modes: distinct keys, any labels
Registries ==
    UNION {{r \in [1..n -> Entries] : \A i, j \in 1..n : r[i].key = r[j].key => i = j}
           : n \in 0..MaxModes}

DefaultModeInputs == {None} \cup {Some(k) : k \in {"text", "go", "rust", "constructor", ""}}
DataModeInputs == {None} \cup {Some(k) : k \in {"", "go", "rust"}}
Chars == {" ", "\n", "a"}
DataCodeInputs == {None, Some(<<"a">>)}
PasteTexts == {<<>>, <<"b">>}
TypedChars == {"a"}

RECURSIVE TextsOf(_)
TextsOf(n) == IF n = 0 THEN {<<>>}
              ELSE TextsOf(n - 1) \cup {Append(t, ch) : t \in {u \in TextsOf(n - 1) : Len(u) = n - 1}, ch \in Chars}

(***************************************************************************)
(* Property access on this.modes.                                          *)
(***************************************************************************)
KeysOf(m) == {m[i].key : i \in 1..Len(m)}

IsIntegerKey(e) == e.key \in IntegerKeys
IsStringKey(e) == e.key \notin IntegerKeys

\* Object.keys(m), also the order of for...in: integer keys first (IntegerKeys holds
\* one, so their ascending order is that of m), then the others as written
ObjectKeys(m) ==
    LET ordered == SelectSeq(m, IsIntegerKey) \o SelectSeq(m, IsStringKey)
    IN [i \in 1..Len(ordered) |-> ordered[i].key]

\* m[k]: the own property's label, else what Object.prototype holds under k, else undefined
Get(m, k) ==
    IF k \in KeysOf(m) THEN Some((CHOOSE e \in {m[i] : i \in 1..Len(m)} : e.key = k).label)
    ELSE IF k \in ObjectPrototypeKeys THEN Some("function")
    ELSE None

(***************************************************************************)
(* constructor                                                             *)
(***************************************************************************)
\* this.modes = config.modes || { text: ... }
EffectiveModes(config) == IF config.modes # None THEN config.modes[1] ELSE DefaultModes

\* the if (typeof config.defaultMode === 'string') statement: the local selectedMode
\* and the number of warnings written
ResolveDefaultMode(config, m) ==
    IF config.defaultMode # None
    THEN IF ~Truthy(Get(m, config.defaultMode[1]))
         THEN [selectedMode |-> Some(DEFAULT_MODE_KEY), warned |-> 1]
         ELSE [selectedMode |-> config.defaultMode, warned |-> 0]
    ELSE [selectedMode |-> IF Len(ObjectKeys(m)) > 0 THEN Some(ObjectKeys(m)[1]) ELSE None,
          warned |-> 0]

\* InitialData with the prior mode dropped
InitialDataIgnoringPrior(d, selectedMode) ==
    [code |-> IF TruthyText(d.code) THEN d.code[1] ELSE <<>>, mode |-> selectedMode]

\* this.data = { code: data.code || '', mode: data.mode || selectedMode }
InitialData(d, selectedMode) ==
    [code |-> IF TruthyText(d.code) THEN d.code[1] ELSE <<>>,
     mode |-> IF Truthy(d.mode) THEN d.mode ELSE selectedMode]

(***************************************************************************)
(* drawView                                                                *)
(***************************************************************************)
\* selector.value = v: the first option with that value becomes the selected one;
\* with no such option none is selected and the select's value reads ""
SelectValue(opts, v) ==
    IF v # None /\ \E i \in 1..Len(opts) : opts[i] = v[1] THEN v[1] ELSE ""

DrawSelector(m, d, readOnly) ==
    [options |-> ObjectKeys(m), value |-> SelectValue(ObjectKeys(m), d.mode), disabled |-> readOnly]

\* a new textarea whose textContent is set: its value follows it while the element is
\* not dirty, and the caret rests at offset 0 until it is moved
DrawTextarea(d, readOnly) ==
    [textContent |-> d.code, value |-> d.code, dirty |-> FALSE,
     selectionStart |-> 0, disabled |-> readOnly]

(***************************************************************************)
(* The textarea element, as the handlers use it.                           *)
(***************************************************************************)
\* textarea.value = v: the value is now the script's (dirty), and a changed value
\* moves the caret to its end
SetValue(ta, v) ==
    [ta EXCEPT !.value = v, !.dirty = TRUE,
               !.selectionStart = IF v # ta.value THEN Len(v) ELSE ta.selectionStart]

\* textarea.textContent = t: the default value; the value follows it only while the
\* element is not dirty
SetTextContent(ta, t) ==
    IF ta.dirty THEN [ta EXCEPT !.textContent = t]
    ELSE [ta EXCEPT !.textContent = t, !.value = t,
                    !.selectionStart = Min(ta.selectionStart, Len(t))]

\* textarea.setSelectionRange(n, n): n is converted to an unsigned long, so a
\* negative n becomes n + 2^32, beyond any text; then it is clamped to the length
SetSelectionRange(ta, n) ==
    [ta EXCEPT !.selectionStart = IF n < 0 THEN Len(ta.value) ELSE Min(n, Len(ta.value))]

(***************************************************************************)
(* ./utils/string                                                          *)
(***************************************************************************)
\* getLineStartPosition(string, position): one past the nearest line separator
\* before position, or 0 when none precedes it
getLineStartPosition(string, position) ==
    LET before == {i \in 1..Min(position, Len(string)) : string[i] = "\n"}
    IN IF before = {} THEN 0 ELSE CHOOSE i \in before : \A j \in before : j <= i

(***************************************************************************)
(* tabHandler                                                              *)
(***************************************************************************)
indentation == <<" ", " ">>

\* tabHandler with the caret left where it was after a Shift+Tab
tabHandlerCaretKept(ta, isShiftPressed) ==
    LET caretPosition == ta.selectionStart
        value == ta.value
    IN IF ~isShiftPressed
       THEN SetSelectionRange(
                SetValue(ta, Substring(value, 0, caretPosition) \o indentation
                             \o SubstringFrom(value, caretPosition)),
                caretPosition + Len(indentation))
       ELSE LET currentLineStart == getLineStartPosition(value, caretPosition)
                firstLineChars == Substr(value, currentLineStart, Len(indentation))
            IN IF firstLineChars # indentation
               THEN ta
               ELSE SetSelectionRange(
                        SetValue(ta, Substring(value, 0, currentLineStart)
                                     \o SubstringFrom(value, currentLineStart + Len(indentation))),
                        caretPosition)

\* tabHandler with Shift+Tab testing only the first character of the line
tabHandlerFirstCharOnly(ta, isShiftPressed) ==
    LET caretPosition == ta.selectionStart
        value == ta.value
    IN IF ~isShiftPressed
       THEN SetSelectionRange(
                SetValue(ta, Substring(value, 0, caretPosition) \o indentation
                             \o SubstringFrom(value, caretPosition)),
                caretPosition + Len(indentation))
       ELSE LET currentLineStart == getLineStartPosition(value, caretPosition)
                firstLineChars == Substr(value, currentLineStart, 1)
            IN IF firstLineChars # Substr(indentation, 0, 1)
               THEN ta
               ELSE SetSelectionRange(
                        SetValue(ta, Substring(value, 0, currentLineStart)
                                     \o SubstringFrom(value, currentLineStart + Len(indentation))),
                        caretPosition - Len(indentation))

tabHandler(ta, isShiftPressed) ==
    LET caretPosition == ta.selectionStart
        value == ta.value
    IN IF ~isShiftPressed
       THEN SetSelectionRange(
                SetValue(ta, Substring(value, 0, caretPosition) \o indentation
                             \o SubstringFrom(value, caretPosition)),
                caretPosition + Len(indentation))
       ELSE LET currentLineStart == getLineStartPosition(value, caretPosition)
                firstLineChars == Substr(value, currentLineStart, Len(indentation))
            IN IF firstLineChars # indentation
               THEN ta
               ELSE SetSelectionRange(
                        SetValue(ta, Substring(value, 0, currentLineStart)
                                     \o SubstringFrom(value, currentLineStart + Len(indentation))),
                        caretPosition - Len(indentation))

(***************************************************************************)
(* save, onPaste, the data setter                                          *)
(***************************************************************************)
\* save reading the stored record instead of the textarea
saveStoredCode(ta, d) == [code |-> d.code, mode |-> d.mode]

\* save(codeWrapper): codeWrapper is the holder render() returned
save(ta, d) == [code |-> ta.value, mode |-> d.mode]

\* onPaste: the record assigned to this.data
PastedData(content, d) == [code |-> content, mode |-> d.mode]

(***************************************************************************)
(* The state after new CodeTool({data, config, api, readOnly}).            *)
(***************************************************************************)
Constructed(o) ==
    LET m == EffectiveModes(o.config)
        r == ResolveDefaultMode(o.config, m)
        d == InitialData(o.data, r.selectedMode)
    IN /\ options = o
       /\ modes = m
       /\ warnings = r.warned
       /\ data = d
       /\ selector = DrawSelector(m, d, o.readOnly)
       /\ textarea = DrawTextarea(d, o.readOnly)
       /\ lastOp = "constructor"
       /\ saved = None
       /\ picked = None
       /\ history = <<>>

ConfigInputs == [modes : {None} \cup {Some(r) : r \in Registries}, defaultMode : DefaultModeInputs]
DataInputs == [code : DataCodeInputs, mode : DataModeInputs]

Init == \E d \in DataInputs, c \in ConfigInputs, ro \in BOOLEAN :
            Constructed([data |-> d, config |-> c, readOnly |-> ro])

(***************************************************************************)
(* Events.                                                                 *)
(***************************************************************************)
\* the selector's change listener: the user picked another option
Change(k) ==
    /\ ~selector.disabled
    /\ \E i \in 1..Len(selector.options) : selector.options[i] = k
    /\ k # selector.value
    /\ selector' = [selector EXCEPT !.value = k]
    /\ data' = [data EXCEPT !.mode = Some(k)]
    /\ picked' = Some(k)
    /\ lastOp' = "change"
    /\ saved' = None
    /\ history' = <<>>
    /\ UNCHANGED <<options, modes, textarea, warnings>>

\* the user types a character at the caret
Input(ch) ==
    /\ ~textarea.disabled
    /\ Len(textarea.value) < MaxText
    /\ textarea' = [textarea EXCEPT
            !.value = Substring(textarea.value, 0, textarea.selectionStart) \o <<ch>>
                      \o SubstringFrom(textarea.value, textarea.selectionStart),
            !.dirty = TRUE,
            !.selectionStart = textarea.selectionStart + 1]
    /\ lastOp' = "input"
    /\ saved' = None
    /\ history' = <<>>
    /\ UNCHANGED <<options, modes, data, selector, warnings, picked>>

\* the user places the caret
MoveCaret(c) ==
    /\ ~textarea.disabled
    /\ c \in 0..Len(textarea.value)
    /\ c # textarea.selectionStart
    /\ textarea' = [textarea EXCEPT !.selectionStart = c]
    /\ lastOp' = "caret"
    /\ saved' = None
    /\ history' = <<>>
    /\ UNCHANGED <<options, modes, data, selector, warnings, picked>>

\* the textarea's keydown listener, event.code = 'Tab'
KeyDown(shiftKey) ==
    /\ ~textarea.disabled
    /\ shiftKey \/ Len(textarea.value) + Len(indentation) <= MaxText
    /\ textarea' = tabHandler(textarea, shiftKey)
    /\ history' = (IF history = <<>> THEN <<>> ELSE <<history[Len(history)]>>)
                   \o <<[shiftKey |-> shiftKey,
                         value |-> textarea.value, caret |-> textarea.selectionStart,
                         newValue |-> textarea'.value, newCaret |-> textarea'.selectionStart]>>
    /\ lastOp' = "tab"
    /\ saved' = None
    /\ UNCHANGED <<options, modes, data, selector, warnings, picked>>

Tab == KeyDown(FALSE)
ShiftTab == KeyDown(TRUE)

\* onPaste(event), event.detail.data.textContent = content
Paste(content) ==
    /\ data' = PastedData(content, data)
    /\ textarea' = SetTextContent(textarea, data'.code)
    /\ lastOp' = "paste"
    /\ saved' = None
    /\ history' = <<>>
    /\ UNCHANGED <<options, modes, selector, warnings, picked>>

\* save(codeWrapper)
Save ==
    /\ saved' = Some(save(textarea, data))
    /\ lastOp' = "save"
    /\ history' = <<>>
    /\ UNCHANGED <<options, modes, data, selector, textarea, warnings, picked>>

(***************************************************************************)
(* Specifications.                                                         *)
(***************************************************************************)
\* every configuration; the host's calls and the selector
Next ==
    \/ \E k \in ModeKeys : Change(k)
    \/ \E t \in PasteTexts : Paste(t)
    \/ Save

Spec == Init /\ [][Next]_vars

\* the documented configurations; every event
EditConfigs ==
    [modes : {None, Some(<<[key |-> "text", label |-> "Plain Text"], [key |-> "go", label |-> "Go"]>>)},
     defaultMode : {None, Some("go")}]

EditData == [code : DataCodeInputs, mode : {None, Some("rust")}]

EditInit == \E d \in EditData, c \in EditConfigs, ro \in BOOLEAN :
                Constructed([data |-> d, config |-> c, readOnly |-> ro])

EditNext ==
    \/ \E k \in ModeKeys : Change(k)
    \/ \E ch \in TypedChars : Input(ch)
    \/ \E c \in 0..MaxText : MoveCaret(c)
    \/ Tab
    \/ ShiftTab
    \/ \E t \in PasteTexts : Paste(t)
    \/ Save

EditSpec == EditInit /\ [][EditNext]_vars

\* the default configuration over every prior code; the caret and the Tab key
TabInit == \E t \in TextsOf(MaxInit) :
               Constructed([data |-> [code |-> Some(t), mode |-> None],
                            config |-> [modes |-> None, defaultMode |-> None],
                            readOnly |-> FALSE])

TabNext ==
    \/ \E c \in 0..MaxText : MoveCaret(c)
    \/ Tab
    \/ ShiftTab

TabSpec == TabInit /\ [][TabNext]_vars

(***************************************************************************)
(* Properties of the constructor (checked under Spec).                     *)
(***************************************************************************)
Fresh == lastOp = "constructor"
NoPriorMode == options.data.mode = None
DefaultModeGiven == options.config.defaultMode # None

\* C1: with a non-empty registry and config.defaultMode a string that is not one of
\* its keys, and no prior data.mode, the constructed mode is "text" and exactly one
\* warning was written.
C1_UnknownDefaultFallsBack ==
    (Fresh /\ modes # <<>> /\ DefaultModeGiven /\ NoPriorMode
        /\ options.config.defaultMode[1] \notin KeysOf(modes))
    => (data.mode = Some(DEFAULT_MODE_KEY) /\ warnings = 1)

\* C2: with config.defaultMode a key of the registry, whatever its label, and no
\* prior data.mode, the constructed mode is config.defaultMode and no warning was
\* written.
C2_KnownDefaultIsSelected ==
    (Fresh /\ DefaultModeGiven /\ NoPriorMode
        /\ options.config.defaultMode[1] \in KeysOf(modes))
    => (data.mode = options.config.defaultMode /\ warnings = 0)

\* C3, as claimed: a prior data.mode, whatever string it is, is the mode stored and
\* the mode the selector shows after construction.
C3_PriorModeAlwaysWins ==
    (Fresh /\ ~NoPriorMode)
    => (data.mode = options.data.mode /\ selector.value = options.data.mode[1])

\* C3, amended: a non-empty prior data.mode is the mode stored after construction,
\* whatever config.defaultMode is, and the selector shows it when it is a key of the
\* registry and shows no selection otherwise; with no prior mode, or an empty one,
\* the stored mode is the resolved default.
C3_NonEmptyPriorModeWins ==
    Fresh =>
        IF Truthy(options.data.mode)
        THEN /\ data.mode = options.data.mode
             /\ selector.value = IF options.data.mode[1] \in KeysOf(modes)
                                  THEN options.data.mode[1] ELSE ""
        ELSE data.mode = ResolveDefaultMode(options.config, modes).selectedMode

C3_Witness ==
    /\ Fresh
    /\ options.data.mode = Some("rust")
    /\ options.config.defaultMode = Some("go")
    /\ "go" \in KeysOf(modes)
    /\ data.mode = Some("rust")
    /\ selector.value = ""

\* C4: the registry is never empty: it is text -> Plain Text when config.modes is
\* absent or an empty mapping, and the supplied mapping otherwise, in every state.
C4_RegistryNeverEmpty ==
    /\ modes # <<>>
    /\ IF options.config.modes = None \/ options.config.modes = Some(<<>>)
       THEN modes = DefaultModes
       ELSE modes = options.config.modes[1]

\* C5: with config.defaultMode absent and no prior data.mode, the constructed mode is
\* the first key of the registry in registration order, a key of the registry.
C5_FirstRegisteredKey ==
    (Fresh /\ ~DefaultModeGiven /\ NoPriorMode)
    => (modes # <<>> /\ data.mode = Some(modes[1].key) /\ data.mode[1] \in KeysOf(modes))

(***************************************************************************)
(* Properties of save and onPaste (checked under EditSpec).                *)
(***************************************************************************)
\* the mode the constructor stored
InitialMode ==
    InitialData(options.data,
                ResolveDefaultMode(options.config, EffectiveModes(options.config)).selectedMode).mode

\* C6: save returns the text the textarea holds and the key the user picked last (the
\* constructed mode if none was picked), and changes neither the text nor the mode.
C6_SaveReturnsLiveState ==
    [][lastOp' = "save" =>
        /\ saved'[1].code = textarea.value
        /\ saved'[1].mode = (IF picked # None THEN picked ELSE InitialMode)
        /\ textarea' = textarea
        /\ data' = data
        /\ selector' = selector]_vars

C6_Witness ==
    /\ lastOp = "save"
    /\ picked # None
    /\ picked # InitialMode
    /\ textarea.dirty
    /\ saved[1].code = textarea.value
    /\ saved[1].code # data.code
    /\ saved[1].mode = picked

\* C7: in every state a paste makes the pasted text the text a following save
\* returns, and leaves the mode unchanged.
C7_PasteReplacesText ==
    [][lastOp' = "paste" =>
        /\ save(textarea', data').code = data'.code
        /\ data'.mode = data.mode]_vars

(***************************************************************************)
(* Properties of the Tab key handler (checked under TabSpec).              *)
(***************************************************************************)
LastKey == history[Len(history)]

\* the line of event h starts with the indentation unit
LineIsIndented(h) ==
    Substr(h.value, getLineStartPosition(h.value, h.caret), Len(indentation)) = indentation

\* history holds a Shift+Tab on an indented line and the Tab that followed it
OutdentThenIndent ==
    /\ Len(history) = 2
    /\ history[1].shiftKey
    /\ LineIsIndented(history[1])
    /\ ~history[2].shiftKey

\* C8, as claimed: Shift+Tab on an indented line followed at once by Tab restores the
\* text.
C8_OutdentIndentRestores ==
    OutdentThenIndent => history[2].newValue = history[1].value

\* C8, amended: Shift+Tab followed at once by Tab restores the text when the caret
\* was right after the line's leading indentation unit (c = lineStart(T, c) + 2).
C8_OutdentIndentRestoresAfterUnit ==
    (OutdentThenIndent
        /\ history[1].caret = getLineStartPosition(history[1].value, history[1].caret) + 2)
    => history[2].newValue = history[1].value

C8_Witness ==
    /\ OutdentThenIndent
    /\ getLineStartPosition(history[1].value, history[1].caret) > 0
    /\ history[1].caret = getLineStartPosition(history[1].value, history[1].caret) + 2
    /\ history[1].newValue # history[1].value
    /\ history[2].newValue = history[1].value

\* C9: Shift+Tab changes neither text nor caret unless the two characters at the
\* start of the caret's line are the indentation unit, and then it removes exactly
\* those two characters.
C9_OutdentFrame ==
    (history # <<>> /\ LastKey.shiftKey) =>
        LET v == LastKey.value
            s == getLineStartPosition(v, LastKey.caret)
        IN IF s + 2 <= Len(v) /\ v[s + 1] = " " /\ v[s + 2] = " "
           THEN LastKey.newValue = SubSeq(v, 1, s) \o SubSeq(v, s + 3, Len(v))
           ELSE LastKey.newValue = v /\ LastKey.newCaret = LastKey.caret

C9_Witness ==
    /\ Len(history) = 2
    /\ history[1].shiftKey /\ history[1].newValue # history[1].value
    /\ getLineStartPosition(history[1].value, history[1].caret) > 0
    /\ history[2].shiftKey /\ history[2].newValue = history[2].value
    /\ Substr(history[2].value, getLineStartPosition(history[2].value, history[2].caret), 1) = <<" ">>

\* C10: after any Tab key events the caret is an index into the text, and after a
\* Shift+Tab that removed the indentation it is not before the start of its line.
C10_CaretStaysOnLine ==
    /\ textarea.selectionStart \in 0..Len(textarea.value)
    /\ (history # <<>> /\ LastKey.shiftKey /\ LastKey.newValue # LastKey.value)
       => LastKey.newCaret >= getLineStartPosition(LastKey.value, LastKey.caret)

====
